---- MODULE Spec2Model ----
(***************************************************************************)
(* Model of the 8-ball table detector: TableDetector.detect_table          *)
(* (src/src/cv/table_detector.py) and the command line driver main /       *)
(* process_frame (src/main.py).                                            *)
(*                                                                         *)
(* An image is a record [w, h, ch, px]: width, height, channel count and   *)
(* the row-major pixel array px[y * w + x]; a pixel is a tuple of ch       *)
(* 8-bit values (B, G, R order for a colour frame).  A single-channel      *)
(* mask is a record [w, h, px] with px[y * w + x] in {0, 255}.             *)
(***************************************************************************)
EXTENDS Integers, Sequences, FiniteSets, TLC

(***************************************************************************)
(* Colour conversion: cv2.cvtColor(frame, cv2.COLOR_BGR2HSV) on 8-bit      *)
(* data, in the fixed-point arithmetic of the library (shift 12, hue       *)
(* range 0..179).                                                         *)
(***************************************************************************)
\* saturate_cast<int>(num / i): nearest integer (no tie occurs for the
\* two numerators used below and 1 <= i <= 255).
RoundDiv(num, i) == (2 * num + i) \div (2 * i)

\* sdiv_table[i] = (255 << 12) / i
sdiv_table(i) == IF i = 0 THEN 0 ELSE RoundDiv(255 * 4096, i)

\* hdiv_table180[i] = (180 << 12) / (6 * i)
hdiv_table180(i) == IF i = 0 THEN 0 ELSE RoundDiv(30 * 4096, i)

\* (x + (1 << 11)) >> 12, an arithmetic shift (floor).
Descale(x) == (x + 2048) \div 4096

Max2(a, b) == IF a >= b THEN a ELSE b

Min2(a, b) == IF a <= b THEN a ELSE b

\* One pixel, B G R (a fourth channel, if any, is ignored) -> <<H, S, V>>.
BGR2HSV(p) ==
    LET b == p[1]
        g == p[2]
        r == p[3]
        v == Max2(b, Max2(g, r))
        vmin == Min2(b, Min2(g, r))
        diff == v - vmin
        s == Descale(diff * sdiv_table(v))
        h0 == IF v = r THEN g - b
              ELSE IF v = g THEN b - r + 2 * diff
              ELSE r - g + 4 * diff
        h1 == Descale(h0 * hdiv_table180(diff))
        h == IF h1 < 0 THEN h1 + 180 ELSE h1
    IN  <<h, s, v>>

\* cvtColor accepts a non-empty image of 3 or 4 channels and raises
\* cv2.error for anything else.
CvtColorAccepts(f) == f.w > 0 /\ f.h > 0 /\ f.ch \in {3, 4}

CvtColor(f) == [w |-> f.w, h |-> f.h, ch |-> 3,
                px |-> [i \in DOMAIN f.px |-> BGR2HSV(f.px[i])]]

(***************************************************************************)
(* cv2.inRange(hsv, lower, upper): 255 where every channel lies in         *)
(* [lower, upper], both ends included, else 0.                             *)
(***************************************************************************)
\* Variant: the lower bound excluded.
InRangePixelExclusive(p, lo, hi) ==
    IF \A c \in 1..3 : lo[c] < p[c] /\ p[c] <= hi[c] THEN 255 ELSE 0

InRangePixel(p, lo, hi) ==
    IF \A c \in 1..3 : lo[c] <= p[c] /\ p[c] <= hi[c] THEN 255 ELSE 0

\* Variant: rows and columns exchanged in the shape of the result.
InRangeTransposed(img, lo, hi) ==
    [w |-> img.h, h |-> img.w,
     px |-> [i \in DOMAIN img.px |-> InRangePixel(img.px[i], lo, hi)]]

InRange(img, lo, hi) ==
    [w |-> img.w, h |-> img.h,
     px |-> [i \in DOMAIN img.px |-> InRangePixel(img.px[i], lo, hi)]]

(***************************************************************************)
(* Morphology with kernel = np.ones((5, 5)): anchor at the centre, pixels  *)
(* outside the image do not take part (the library's default border        *)
(* value).  A rectangular kernel is applied as a row filter followed by a  *)
(* column filter.                                                          *)
(***************************************************************************)
KernelSize == 5

KernelRadius == KernelSize \div 2

Offsets == (0 - KernelRadius)..KernelRadius

\* Variant: pixels outside the image count as set.
DilateRowSetBorder(m) ==
    [m EXCEPT !.px = [i \in DOMAIN m.px |->
        LET x == i % m.w
        IN  IF \E d \in Offsets :
                 x + d < 0 \/ x + d >= m.w \/ m.px[i + d] = 255
            THEN 255 ELSE 0]]

DilateRow(m) ==
    [m EXCEPT !.px = [i \in DOMAIN m.px |->
        LET x == i % m.w
        IN  IF \E d \in Offsets :
                 x + d >= 0 /\ x + d < m.w /\ m.px[i + d] = 255
            THEN 255 ELSE 0]]

DilateCol(m) ==
    [m EXCEPT !.px = [i \in DOMAIN m.px |->
        LET y == i \div m.w
        IN  IF \E d \in Offsets :
                 y + d >= 0 /\ y + d < m.h /\ m.px[i + d * m.w] = 255
            THEN 255 ELSE 0]]

ErodeRow(m) ==
    [m EXCEPT !.px = [i \in DOMAIN m.px |->
        LET x == i % m.w
        IN  IF \A d \in Offsets :
                 (x + d >= 0 /\ x + d < m.w) => m.px[i + d] = 255
            THEN 255 ELSE 0]]

ErodeCol(m) ==
    [m EXCEPT !.px = [i \in DOMAIN m.px |->
        LET y == i \div m.w
        IN  IF \A d \in Offsets :
                 (y + d >= 0 /\ y + d < m.h) => m.px[i + d * m.w] = 255
            THEN 255 ELSE 0]]

Dilate(m) == DilateCol(DilateRow(m))

Erode(m) == ErodeCol(ErodeRow(m))

\* cv2.MORPH_CLOSE: dilate, then erode.
MorphClose(m) == Erode(Dilate(m))

\* cv2.MORPH_OPEN: erode, then dilate.
MorphOpen(m) == Dilate(Erode(m))

(***************************************************************************)
(* cv2.findContours(mask, RETR_EXTERNAL, CHAIN_APPROX_SIMPLE).             *)
(* Non-zero pixels are 8-connected, zero pixels 4-connected; everything    *)
(* outside the image counts as zero.                                       *)
(***************************************************************************)
Foreground(m) == {i \in DOMAIN m.px : m.px[i] = 255}

Neighbours8(m, i) ==
    LET x == i % m.w
        y == i \div m.w
    IN  {(y + d[2]) * m.w + (x + d[1]) : d \in
            {d \in {-1, 0, 1} \X {-1, 0, 1} :
                /\ d # <<0, 0>>
                /\ x + d[1] >= 0 /\ x + d[1] < m.w
                /\ y + d[2] >= 0 /\ y + d[2] < m.h}}

Neighbours4(m, i) ==
    LET x == i % m.w
        y == i \div m.w
    IN  {(y + d[2]) * m.w + (x + d[1]) : d \in
            {d \in {<<-1, 0>>, <<1, 0>>, <<0, -1>>, <<0, 1>>} :
                /\ x + d[1] >= 0 /\ x + d[1] < m.w
                /\ y + d[2] >= 0 /\ y + d[2] < m.h}}

\* One round of flood filling: st = [front, seen]; four = TRUE for
\* 4-connectivity, else 8-connectivity.
FillStep(m, within, four, st) ==
    LET next == {j \in UNION {IF four THEN Neighbours4(m, i) ELSE Neighbours8(m, i) :
                              i \in st.front} : j \in within /\ j \notin st.seen}
    IN  [front |-> next, seen |-> st.seen \cup next]

\* Up to n rounds; FillAll repeats runs of 16 rounds until nothing is
\* added, which keeps the recursion shallow.
RECURSIVE FillN(_, _, _, _, _)
FillN(m, within, four, st, n) ==
    IF n = 0 \/ st.front = {} THEN st
    ELSE FillN(m, within, four, FillStep(m, within, four, st), n - 1)

RECURSIVE FillAll(_, _, _, _)
FillAll(m, within, four, st) ==
    IF st.front = {} THEN st.seen
    ELSE FillAll(m, within, four, FillN(m, within, four, st, 16))

\* The pixels of `within` reachable from `seeds`.
Fill(m, within, four, seeds) ==
    FillAll(m, within, four, [front |-> seeds, seen |-> seeds])

MinOf(S) == CHOOSE i \in S : \A j \in S : i <= j

\* The connected components of the non-zero pixels in raster-scan order
\* of their first (topmost, then leftmost) pixel.
RECURSIVE Components(_, _)
Components(m, rest) ==
    IF rest = {} THEN <<>>
    ELSE LET start == MinOf(rest)
             comp == Fill(m, rest, FALSE, {start})
         IN  <<[start |-> start, pixels |-> comp]>> \o Components(m, rest \ comp)

\* The zero pixels joined to the outside of the image.
Outside(m) ==
    LET zero == {i \in DOMAIN m.px : m.px[i] = 0}
        rim == {i \in zero : \/ i % m.w = 0 \/ i % m.w = m.w - 1
                             \/ i \div m.w = 0 \/ i \div m.w = m.h - 1}
    IN  Fill(m, zero, TRUE, rim)

\* RETR_EXTERNAL keeps a component only if it does not lie inside a hole
\* of another one: the zero pixel left of its first pixel is outside.
IsExternal(m, out, comp) ==
    \/ comp.start % m.w = 0
    \/ (comp.start - 1) \in out

\* Chain-code steps 0..7: east, north-east, north, ... (counter-clockwise
\* on the screen, y grows downwards).
Delta(s) ==
    CASE s = 0 -> <<1, 0>>  [] s = 1 -> <<1, -1>> [] s = 2 -> <<0, -1>>
      [] s = 3 -> <<-1, -1>> [] s = 4 -> <<-1, 0>> [] s = 5 -> <<-1, 1>>
      [] s = 6 -> <<0, 1>>  [] s = 7 -> <<1, 1>>

Step(p, s) == <<p[1] + Delta(s)[1], p[2] + Delta(s)[2]>>

NonZero(m, p) ==
    /\ p[1] >= 0 /\ p[1] < m.w /\ p[2] >= 0 /\ p[2] < m.h
    /\ m.px[p[2] * m.w + p[1]] = 255

\* First step direction, searching clockwise from west; 4 when the pixel
\* has no neighbour.
FirstClockwise(m, p) ==
    LET order == <<3, 2, 1, 0, 7, 6, 5>>
        hits == {k \in 1..7 : NonZero(m, Step(p, order[k]))}
    IN  IF hits = {} THEN 4 ELSE order[MinOf(hits)]

\* Next step direction from p, searching counter-clockwise after s.
NextCounterClockwise(m, p, s) ==
    LET k == MinOf({k \in 1..8 : NonZero(m, Step(p, (s + k) % 8))})
    IN  (s + k) % 8

\* One step of border following around the component of i0, whose first
\* step led to i1.  st = [p, s, prev_s, pts, done]: the current pixel, the
\* direction it was entered from, the direction of the previous step and
\* the points kept so far; with CHAIN_APPROX_SIMPLE a point is kept only
\* where the direction changes.
FollowStep(m, i0, i1, st) ==
    LET s4 == NextCounterClockwise(m, st.p, st.s)
        i4 == Step(st.p, s4)
    IN  [p |-> i4, s |-> (s4 + 4) % 8, prev_s |-> s4,
         pts |-> IF s4 # st.prev_s THEN Append(st.pts, st.p) ELSE st.pts,
         done |-> i4 = i0 /\ st.p = i1]

RECURSIVE FollowN(_, _, _, _, _)
FollowN(m, i0, i1, st, n) ==
    IF n = 0 \/ st.done THEN st
    ELSE FollowN(m, i0, i1, FollowStep(m, i0, i1, st), n - 1)

RECURSIVE Follow(_, _, _, _)
Follow(m, i0, i1, st) ==
    IF st.done THEN st.pts ELSE Follow(m, i0, i1, FollowN(m, i0, i1, st, 16))

\* The outer border of the component whose first pixel is `start`.
FetchContour(m, start) ==
    LET i0 == <<start % m.w, start \div m.w>>
        s == FirstClockwise(m, i0)
    IN  IF s = 4 THEN <<i0>>
        ELSE Follow(m, i0, Step(i0, s),
                    [p |-> i0, s |-> s, prev_s |-> (s + 4) % 8, pts |-> <<>>,
                     done |-> FALSE])

Reverse(q) == [k \in 1..Len(q) |-> q[Len(q) + 1 - k]]

\* The external contours as the library returns them: each new contour
\* is put in front of those found before it, so the list is in the
\* reverse of the raster-scan order of discovery.
FindContours(m) ==
    LET comps == Components(m, Foreground(m))
        out == Outside(m)
        ext == SelectSeq(comps, LAMBDA c : IsExternal(m, out, c))
        found == [k \in 1..Len(ext) |-> FetchContour(m, ext[k].start)]
    IN  Reverse(found)

(***************************************************************************)
(* cv2.contourArea: the polygon area by Green's formula, |a00| / 2.        *)
(* ContourArea2 is twice the area, an integer.                             *)
(***************************************************************************)
RECURSIVE SumCross(_, _)
SumCross(c, k) ==
    IF k > Len(c) THEN 0
    ELSE LET prev == IF k = 1 THEN c[Len(c)] ELSE c[k - 1]
         IN  prev[1] * c[k][2] - prev[2] * c[k][1] + SumCross(c, k + 1)

Abs(x) == IF x < 0 THEN 0 - x ELSE x

ContourArea2(c) == IF Len(c) = 0 THEN 0 ELSE Abs(SumCross(c, 1))

\* Variant: contours[0] taken for the largest.
FirstContour(cs) == cs[1]

\* max(contours, key=cv2.contourArea): the first element of the list
\* whose key is the largest.
MaxByArea(cs) ==
    cs[MinOf({k \in 1..Len(cs) :
                \A j \in 1..Len(cs) : ContourArea2(cs[j]) <= ContourArea2(cs[k])})]

(***************************************************************************)
(* Frames.  Colours are B, G, R.                                           *)
(***************************************************************************)
Black == <<0, 0, 0>>          \* HSV (0, 0, 0)
Felt == <<34, 139, 34>>       \* HSV (60, 193, 139), create_test_image's felt
Rail == <<19, 69, 139>>       \* HSV (13, 220, 139), create_test_image's rail
Green == <<0, 255, 0>>        \* HSV (60, 255, 255), the outline colour
Red == <<0, 0, 255>>          \* HSV (0, 255, 255), the corner colour
HueLow == <<0, 255, 217>>     \* HSV (34, 255, 255)
HueMin == <<0, 255, 209>>     \* HSV (35, 255, 255)
HueMax == <<209, 255, 0>>     \* HSV (85, 255, 255)
HueHigh == <<217, 255, 0>>    \* HSV (86, 255, 255)
SatLow == <<206, 255, 206>>   \* HSV (60, 49, 255)
SatMin == <<205, 255, 205>>   \* HSV (60, 50, 255)
ValLow == <<0, 49, 0>>        \* HSV (60, 255, 49)
ValMin == <<0, 50, 0>>        \* HSV (60, 255, 50)

Palette == {Black, Felt, Rail, Green, HueLow, HueMin, HueMax, HueHigh,
            SatLow, SatMin, ValLow, ValMin}

FrameW == 76
FrameH == 34
SmallW == 6
SmallH == 5

\* A frame of w x h pixels of colour bg with filled rectangles
\* <<x0, y0, x1, y1, colour>> (corners included) painted in order.
RECURSIVE ColourAt(_, _, _, _)
ColourAt(bg, rects, x, y) ==
    IF rects = <<>> THEN bg
    ELSE LET r == rects[Len(rects)]
         IN  IF x >= r[1] /\ x <= r[3] /\ y >= r[2] /\ y <= r[4] THEN r[5]
             ELSE ColourAt(bg, SubSeq(rects, 1, Len(rects) - 1), x, y)

MakeFrame(w, h, bg, rects) ==
    [w |-> w, h |-> h, ch |-> 3,
     px |-> [i \in 0..(w * h - 1) |-> ColourAt(bg, rects, i % w, i \div w)]]

\* The scene of create_test_image.py, scaled to the frame: felt inside a
\* rail border on black.
TestTable ==
    MakeFrame(FrameW, FrameH, Black,
              << <<2, 2, 73, 31, Rail>>, <<5, 5, 70, 28, Felt>> >>)

\* Frames of the small size: one colour beside black or felt, and the
\* colours on either side of each threshold beside each other.
SmallFrames ==
    {MakeFrame(SmallW, SmallH, c[1], << <<0, 0, 2, SmallH - 1, c[2]>> >>) :
        c \in (Palette \X {Black, Felt})
              \cup {<<HueLow, HueMin>>, <<HueHigh, HueMax>>,
                    <<SatLow, SatMin>>, <<ValLow, ValMin>>}}

\* Frames of the large size: black with one or two rectangles.
LargeRects ==
    { <<3, 3, 43, 28>>,      \* 41 x 26, outline area 1000
      <<3, 3, 40, 30>>,      \* 38 x 28, outline area 999
      <<0, 0, 31, 33>>,      \* left edge, 32 wide
      <<0, 0, 35, 33>>,      \* left edge, 36 wide
      <<40, 0, 75, 33>>,     \* right edge, 36 wide
      <<44, 0, 75, 33>>,     \* right edge, 32 wide
      <<35, 0, 75, 33>>,     \* right edge, 3 columns from the 32 wide one
      <<50, 10, 52, 12>>,    \* a 3 x 3 speck
      <<10, 8, 30, 20>>,     \* 21 x 13
      <<3, 3, 9, 28>>,       \* a strip 7 wide
      <<6, 3, 6, 28>>,       \* a slit 1 wide
      <<20, 3, 21, 28>> }    \* a slit 2 wide

Paint(r, c) == <<r[1], r[2], r[3], r[4], c>>

LargeScenes ==
    {<<Black, <<Paint(r, Felt)>> >> : r \in LargeRects}
    \cup {<<Black, <<Paint(r, c)>> >> :
            r \in {<<3, 3, 43, 28>>}, c \in {HueLow, HueMin, HueMax, HueHigh}}
    \cup {<<Black, <<Paint(p[1], Felt), Paint(p[2], Felt)>> >> : p \in
            { << <<0, 0, 31, 33>>, <<40, 0, 75, 33>> >>,
              << <<0, 0, 35, 33>>, <<44, 0, 75, 33>> >>,
              << <<0, 0, 31, 33>>, <<44, 0, 75, 33>> >>,
              << <<0, 0, 31, 33>>, <<35, 0, 75, 33>> >>,
              << <<3, 3, 43, 28>>, <<50, 10, 52, 12>> >>,
              << <<3, 3, 40, 30>>, <<50, 10, 52, 12>> >>,
              << <<10, 8, 30, 20>>, <<44, 0, 75, 33>> >>,
              << <<3, 3, 43, 28>>, <<10, 8, 60, 20>> >>,
              << <<3, 3, 20, 15>>, <<21, 16, 43, 28>> >> }}
    \cup {<<Black, <<Paint(p[1], Felt), Paint(p[2], Black)>> >> : p \in
            { << <<3, 3, 43, 28>>, <<10, 8, 30, 20>> >>,
              << <<3, 3, 43, 28>>, <<20, 3, 21, 28>> >>,
              << <<3, 3, 43, 28>>, <<6, 3, 6, 28>> >>,
              << <<3, 3, 9, 28>>, <<6, 3, 6, 28>> >>,
              << <<0, 0, 35, 33>>, <<20, 3, 21, 28>> >>,
              << <<0, 0, 35, 33>>, <<25, 20, 35, 33>> >> }}
    \cup {<<Felt, <<Paint(<<3, 3, 43, 28>>, Black), Paint(<<10, 8, 30, 20>>, Felt)>> >>,
          <<Felt, <<Paint(<<3, 3, 43, 28>>, Black)>> >>,
          <<Felt, <<>> >>, <<Black, <<>> >>, <<Rail, <<>> >>}

LargeFrames ==
    {MakeFrame(FrameW, FrameH, sc[1], sc[2]) : sc \in LargeScenes} \cup {TestTable}

\* Arrays detect_table can be handed that are not w x h x 3 images.
Gray(w, h) == [w |-> w, h |-> h, ch |-> 1, px |-> [i \in 0..(w * h - 1) |-> <<139>>]]

WithAlpha(f) == [f EXCEPT !.ch = 4,
                          !.px = [i \in DOMAIN f.px |-> f.px[i] \o <<255>>]]

OddFrames ==
    { [w |-> 0, h |-> 0, ch |-> 3, px |-> <<>>],
      [w |-> 0, h |-> SmallH, ch |-> 3, px |-> <<>>],
      [w |-> SmallW, h |-> 0, ch |-> 3, px |-> <<>>],
      Gray(SmallW, SmallH),
      [w |-> SmallW, h |-> SmallH, ch |-> 2,
       px |-> [i \in 0..(SmallW * SmallH - 1) |-> <<60, 193>>]],
      WithAlpha(MakeFrame(SmallW, SmallH, Felt, <<>>)),
      WithAlpha(MakeFrame(FrameW, FrameH, Black, <<Paint(<<3, 3, 43, 28>>, Felt)>>)) }

\* What a caller of the detector may pass.
ApiFrames == SmallFrames \cup LargeFrames \cup OddFrames

\* What imread or the camera delivers: 3-channel images.
CameraFrames ==
    { MakeFrame(SmallW, SmallH, Black, <<>>),
      MakeFrame(SmallW, SmallH, Felt, <<>>),
      MakeFrame(FrameW, FrameH, Black, <<Paint(<<3, 3, 40, 30>>, Felt)>>),
      TestTable }

(***************************************************************************)
(* Drawing on the displayed frame (process_frame).  The outline is drawn  *)
(* one pixel wide here; nothing reads the frame after it is drawn on.      *)
(***************************************************************************)
Sign(x) == IF x > 0 THEN 1 ELSE IF x < 0 THEN -1 ELSE 0

\* <<x, y>> lies on the straight run of pixels from p to q.
OnSegment(p, q, x, y) ==
    LET n == Max2(Abs(q[1] - p[1]), Abs(q[2] - p[2]))
        t == Max2(Abs(x - p[1]), Abs(y - p[2]))
    IN  /\ t <= n
        /\ x = p[1] + t * Sign(q[1] - p[1])
        /\ y = p[2] + t * Sign(q[2] - p[2])

OnOutline(c, x, y) ==
    \E k \in 1..Len(c) : OnSegment(c[k], c[(k % Len(c)) + 1], x, y)

CircleRadius == 5

InCircle(centre, x, y) ==
    (x - centre[1]) * (x - centre[1]) + (y - centre[2]) * (y - centre[2])
        <= CircleRadius * CircleRadius

\* cv2.drawContours(frame, [c], -1, (0, 255, 0), 2), then a filled red
\* circle on every point of approx.
DrawOverlay(f, c, approx) ==
    [f EXCEPT !.px = [i \in DOMAIN f.px |->
        LET x == i % f.w
            y == i \div f.w
        IN  IF \E a \in approx : InCircle(a, x, y) THEN Red
            ELSE IF OnOutline(c, x, y) THEN Green
            ELSE f.px[i]]]

(***************************************************************************)
(* State.                                                                  *)
(***************************************************************************)
VARIABLES
    entry,          \* "image", "camera": main with or without --image;
                    \* "api": detect_table used directly by a caller
    pc,             \* the statement about to run
    frame,          \* the frame being processed
    lower_green,    \* TableDetector.lower_green
    upper_green,    \* TableDetector.upper_green
    hsv,            \* detect_table's local hsv
    mask,           \* detect_table's local mask
    contours,       \* detect_table's local contours
    table_contour,  \* detect_table's local table_contour, <<>> before it is set
    result,         \* what the last detect_table call gave its caller
    wait,           \* process_frame's parameter wait
    cap,            \* the video capture: "none", "open", "released"
    stopped,        \* a frame read failed or the quit key was seen
    reads,          \* how many frames main has read so far
    calls           \* for each detect_table call of main so far, the
                    \* number of the frame it was given

vars == <<entry, pc, frame, lower_green, upper_green, hsv, mask, contours,
          table_contour, result, wait, cap, stopped, reads, calls>>

NoImage == [w |-> 0, h |-> 0, ch |-> 0, px |-> <<>>]

NoMask == [w |-> 0, h |-> 0, px |-> <<>>]

\* A call's outcome: "ok" with the pair (contour, mask), the contour being
\* <<>> for None and <<c>> for a contour c; "raised" for cv2.error; "none"
\* while no outcome is held.
NoResult == [kind |-> "none", contour |-> <<>>, mask |-> NoMask]

Raised == [kind |-> "raised", contour |-> <<>>, mask |-> NoMask]

Returned(c, m) == [kind |-> "ok", contour |-> c, mask |-> m]

MinArea == 1000

MaxFrames == 2

\* Key codes cv2.waitKey may give: no key, 'q', 'a', 'q' with a flag bit
\* above the low byte.
Keys == {-1, 113, 97, 113 + 1048576}

locals == <<hsv, mask, contours, table_contour>>

detector == <<lower_green, upper_green>>

driver == <<wait, cap, stopped, reads>>

Init ==
    /\ entry \in {"image", "camera", "api"}
    /\ pc = IF entry = "api" THEN "idle" ELSE "main"
    /\ frame = NoImage
    /\ lower_green = <<35, 50, 50>>
    /\ upper_green = <<85, 255, 255>>
    /\ hsv = NoImage
    /\ mask = NoMask
    /\ contours = <<>>
    /\ table_contour = <<>>
    /\ result = NoResult
    /\ wait = 1
    /\ cap = "none"
    /\ stopped = FALSE
    /\ reads = 0
    /\ calls = <<>>

(***************************************************************************)
(* TableDetector.detect_table, statement by statement.                     *)
(***************************************************************************)
\* Where detect_table's caller continues.
AfterCall == IF entry = "api" THEN "idle" ELSE "pf_draw"

ClearLocals ==
    /\ hsv' = NoImage
    /\ mask' = NoMask
    /\ contours' = <<>>
    /\ table_contour' = <<>>

\* hsv = cv2.cvtColor(frame, cv2.COLOR_BGR2HSV);
\* mask = cv2.inRange(hsv, self.lower_green, self.upper_green)
DT_Threshold ==
    /\ pc = "dt_threshold"
    /\ calls' = IF entry = "api" THEN calls ELSE Append(calls, reads)
    /\ IF CvtColorAccepts(frame)
       THEN /\ hsv' = CvtColor(frame)
            /\ mask' = InRange(CvtColor(frame), lower_green, upper_green)
            /\ pc' = "dt_morph"
            /\ UNCHANGED <<contours, table_contour, result>>
       ELSE /\ result' = Raised
            /\ pc' = IF entry = "api" THEN "idle" ELSE "crashed"
            /\ UNCHANGED locals
    /\ UNCHANGED <<entry, frame, detector, driver>>

\* Variant: opening before closing.
CleanMaskReversed(m) == MorphClose(MorphOpen(m))

\* mask = morphologyEx(mask, MORPH_CLOSE, kernel);
\* mask = morphologyEx(mask, MORPH_OPEN, kernel)
CleanMask(m) == MorphOpen(MorphClose(m))

DT_Morph ==
    /\ pc = "dt_morph"
    /\ mask' = CleanMask(mask)
    /\ pc' = "dt_contours"
    /\ UNCHANGED <<entry, frame, detector, driver, calls, hsv, contours,
                   table_contour, result>>

\* contours, _ = cv2.findContours(...); if not contours: return None, mask
DT_FindContours ==
    /\ pc = "dt_contours"
    /\ LET found == FindContours(mask)
       IN  IF found = <<>>
           THEN /\ result' = Returned(<<>>, mask)
                /\ pc' = AfterCall
                /\ ClearLocals
           ELSE /\ contours' = found
                /\ pc' = "dt_select"
                /\ UNCHANGED <<hsv, mask, table_contour, result>>
    /\ UNCHANGED <<entry, frame, detector, driver, calls>>

\* table_contour = max(contours, key=cv2.contourArea)
DT_Select ==
    /\ pc = "dt_select"
    /\ table_contour' = <<MaxByArea(contours)>>
    /\ pc' = "dt_filter"
    /\ UNCHANGED <<entry, frame, detector, driver, calls, hsv, mask, contours,
                   result>>

\* Variant: <= for <.
TooSmallOrEqual(c) == ContourArea2(c) <= 2 * MinArea

\* cv2.contourArea(c) < 1000
TooSmall(c) == ContourArea2(c) < 2 * MinArea

\* Variant: a rejected candidate makes the detector raise its lower hue
\* bound for the calls to come.
DT_FilterTuning ==
    /\ pc = "dt_filter"
    /\ result' = IF TooSmall(table_contour[1]) THEN Returned(<<>>, mask)
                 ELSE Returned(table_contour, mask)
    /\ lower_green' = IF TooSmall(table_contour[1])
                      THEN [lower_green EXCEPT ![1] = 36] ELSE lower_green
    /\ pc' = AfterCall
    /\ ClearLocals
    /\ UNCHANGED <<entry, frame, upper_green, driver, calls>>

\* Variant: the accepted contour is drawn on the frame before returning.
DT_FilterDrawing ==
    /\ pc = "dt_filter"
    /\ result' = IF TooSmall(table_contour[1]) THEN Returned(<<>>, mask)
                 ELSE Returned(table_contour, mask)
    /\ frame' = IF TooSmall(table_contour[1]) THEN frame
                ELSE DrawOverlay(frame, table_contour[1], {})
    /\ pc' = AfterCall
    /\ ClearLocals
    /\ UNCHANGED <<entry, detector, driver, calls>>

\* if cv2.contourArea(table_contour) < 1000: return None, mask
\* return table_contour, mask
DT_Filter ==
    /\ pc = "dt_filter"
    /\ result' = IF TooSmall(table_contour[1]) THEN Returned(<<>>, mask)
                 ELSE Returned(table_contour, mask)
    /\ pc' = AfterCall
    /\ ClearLocals
    /\ UNCHANGED <<entry, frame, detector, driver, calls>>

\* detect_table as a function of the frame and the two bounds.
detect_table(f, lo, hi) ==
    IF ~CvtColorAccepts(f) THEN Raised
    ELSE LET m == CleanMask(InRange(CvtColor(f), lo, hi))
             cs == FindContours(m)
         IN  IF cs = <<>> THEN Returned(<<>>, m)
             ELSE IF TooSmall(MaxByArea(cs)) THEN Returned(<<>>, m)
             ELSE Returned(<<MaxByArea(cs)>>, m)

(***************************************************************************)
(* A caller that uses the detector directly.                               *)
(***************************************************************************)
ApiCall ==
    /\ entry = "api"
    /\ pc = "idle"
    /\ \E f \in ApiFrames : frame' = f
    /\ result' = NoResult
    /\ pc' = "dt_threshold"
    /\ UNCHANGED <<entry, detector, locals, driver, calls>>

(***************************************************************************)
(* main and process_frame (src/main.py).                                   *)
(***************************************************************************)
\* --image given: frame = cv2.imread(args.image); None ends main, else
\* process_frame(frame, table_detector, wait=0), which starts by calling
\* detect_table.
ReadImage ==
    /\ entry = "image"
    /\ pc = "main"
    /\ \/ /\ pc' = "exit"
          /\ UNCHANGED <<frame, wait, reads>>
       \/ /\ \E f \in CameraFrames : frame' = f
          /\ reads' = reads + 1
          /\ wait' = 0
          /\ pc' = "dt_threshold"
    /\ UNCHANGED <<entry, detector, locals, result, cap, stopped, calls>>

\* no --image: cap = cv2.VideoCapture(0); not opened ends main.
OpenCapture ==
    /\ entry = "camera"
    /\ pc = "main"
    /\ \/ pc' = "exit" /\ UNCHANGED cap
       \/ pc' = "loop" /\ cap' = "open"
    /\ UNCHANGED <<entry, frame, detector, locals, result, wait, stopped, reads,
                   calls>>

\* Variant: a failed read does not leave the loop.
CapReadContinue ==
    /\ pc = "loop"
    /\ \/ /\ stopped' = TRUE
          /\ pc' = "loop"
          /\ UNCHANGED <<frame, wait, reads>>
       \/ /\ reads < MaxFrames
          /\ \E f \in CameraFrames : frame' = f
          /\ reads' = reads + 1
          /\ wait' = 1
          /\ pc' = "dt_threshold"
          /\ UNCHANGED stopped
    /\ UNCHANGED <<entry, detector, locals, result, cap, calls>>

\* ret, frame = cap.read(); if not ret: break; else process_frame(frame,
\* table_detector, wait=1), which starts by calling detect_table.
CapRead ==
    /\ pc = "loop"
    /\ \/ /\ stopped' = TRUE
          /\ pc' = "release"
          /\ UNCHANGED <<frame, wait, reads>>
       \/ /\ reads < MaxFrames
          /\ \E f \in CameraFrames : frame' = f
          /\ reads' = reads + 1
          /\ wait' = 1
          /\ pc' = "dt_threshold"
          /\ UNCHANGED stopped
    /\ UNCHANGED <<entry, detector, locals, result, cap, calls>>

\* The points cv2.approxPolyDP may keep: a non-empty selection of the
\* contour's points.
Approximations(c) ==
    {{c[k] : k \in ks} : ks \in SUBSET (1..Len(c)) \ {{}}}

\* process_frame after the detection: the overlay is drawn on the frame
\* when a contour came back.
PF_Draw ==
    /\ pc = "pf_draw"
    /\ IF result.contour # <<>>
       THEN \E approx \in Approximations(result.contour[1]) :
                frame' = DrawOverlay(frame, result.contour[1], approx)
       ELSE UNCHANGED frame
    /\ pc' = "pf_show"
    /\ UNCHANGED <<entry, detector, locals, result, driver, calls>>

\* cv2.waitKey(wait) & 0xFF == ord('q')
IsQuit(key) == key % 256 = 113

\* imshow, then waitKey: with wait > 0 process_frame returns False on the
\* quit key and the loop breaks, else the loop reads on; with wait = 0 any
\* key ends the single-image run.
PF_Wait ==
    /\ pc = "pf_show"
    /\ \E key \in Keys :
          IF wait > 0
          THEN IF IsQuit(key)
               THEN stopped' = TRUE /\ pc' = "release"
               ELSE UNCHANGED stopped /\ pc' = "loop"
          ELSE UNCHANGED stopped /\ pc' = "destroy"
    /\ result' = NoResult
    /\ UNCHANGED <<entry, frame, detector, locals, wait, cap, reads, calls>>

\* cap.release()
Release ==
    /\ pc = "release"
    /\ cap' = "released"
    /\ pc' = "destroy"
    /\ UNCHANGED <<entry, frame, detector, locals, result, wait, stopped, reads,
                   calls>>

\* cv2.destroyAllWindows()
DestroyWindows ==
    /\ pc = "destroy"
    /\ pc' = "exit"
    /\ UNCHANGED <<entry, frame, detector, locals, result, driver, calls>>

Next ==
    \/ ApiCall
    \/ DT_Threshold
    \/ DT_Morph
    \/ DT_FindContours
    \/ DT_Select
    \/ DT_Filter
    \/ ReadImage
    \/ OpenCapture
    \/ CapRead
    \/ PF_Draw
    \/ PF_Wait
    \/ Release
    \/ DestroyWindows

Spec == Init /\ [][Next]_vars

(***************************************************************************)
(* Properties.                                                             *)
(***************************************************************************)
\* detect_table has handed its outcome to the caller and the caller has
\* not touched the frame yet.
JustReturned == pc \in {"idle", "pf_draw"} /\ result.kind = "ok"

InDetect == pc \in {"dt_threshold", "dt_morph", "dt_contours", "dt_select", "dt_filter"}

Area2Of(k) == ContourArea2(contours[k])

\* C1: once detect_table has picked table_contour among one or more
\* contours, the pick is a contour of the list whose area is at least that
\* of every other one, and it is the first of the list with that area.
C1_LargestSelected ==
    pc = "dt_filter" =>
        /\ Len(contours) >= 1
        /\ \E k \in 1..Len(contours) :
              /\ table_contour = <<contours[k]>>
              /\ \A j \in 1..Len(contours) : Area2Of(j) <= Area2Of(k)
              /\ \A j \in 1..(k - 1) : Area2Of(j) < Area2Of(k)

\* Two regions of different sizes, both above the threshold, the larger
\* one not at the head of the list, and the larger one picked.
C1_Witness ==
    /\ pc = "dt_filter"
    /\ Len(contours) = 2
    /\ Area2Of(1) >= 2 * 1000
    /\ Area2Of(2) > Area2Of(1)
    /\ table_contour = <<contours[2]>>

\* C2: detect_table returns a contour exactly when at least one contour
\* was found and the largest area is >= 1000; a returned contour is one of
\* those found and has area >= 1000, and the mask is returned either way.
C2_AreaThreshold ==
    [][/\ (pc = "dt_contours" /\ pc' # "dt_contours") =>
              /\ pc' = "dt_select" <=> FindContours(mask) # <<>>
              /\ pc' # "dt_select" => result' = Returned(<<>>, mask)
       /\ (pc = "dt_filter" /\ pc' # "dt_filter") =>
              /\ result'.kind = "ok"
              /\ result'.mask = mask
              /\ result'.contour # <<>> <=>
                    \E k \in 1..Len(contours) : Area2Of(k) >= 2 * 1000
              /\ result'.contour # <<>> =>
                    /\ \E k \in 1..Len(contours) : result'.contour = <<contours[k]>>
                    /\ ContourArea2(result'.contour[1]) >= 2 * 1000]_vars

\* A contour of area exactly 1000 has been returned.
C2_Witness ==
    /\ JustReturned
    /\ result.contour # <<>>
    /\ ContourArea2(result.contour[1]) = 2 * 1000

\* C3: a frame that is empty or does not have exactly 3 channels never
\* gets past the conversion and never yields a (contour, mask) pair.
Malformed(f) == f.w = 0 \/ f.h = 0 \/ f.ch # 3

C3_MalformedRejected ==
    (entry = "api" /\ Malformed(frame)) =>
        /\ pc \in {"idle", "dt_threshold"}
        /\ result.kind # "ok"

\* The bounds as the specification gives them.
WithinBounds(p) ==
    /\ 35 <= p[1] /\ p[1] <= 85
    /\ 50 <= p[2] /\ p[2] <= 255
    /\ 50 <= p[3] /\ p[3] <= 255

NoPixelInRange(f) == \A i \in DOMAIN f.px : ~WithinBounds(BGR2HSV(f.px[i]))

\* C4: for a frame without any pixel in range the call returns None and
\* a mask whose cells are all 0.
C4_BackgroundOnly ==
    (JustReturned /\ NoPixelInRange(frame)) =>
        /\ result.contour = <<>>
        /\ \A i \in DOMAIN result.mask.px : result.mask.px[i] = 0

\* A large frame of hue 34 on black has been answered.
C4_Witness ==
    /\ JustReturned
    /\ frame.w = FrameW
    /\ NoPixelInRange(frame)
    /\ \E i \in DOMAIN frame.px : BGR2HSV(frame.px[i]) = <<34, 255, 255>>

\* C5: the raw mask marks a pixel exactly when its three HSV channels lie
\* within 35..85, 50..255 and 50..255, ends included.
C5_InclusiveRange ==
    pc = "dt_morph" =>
        /\ DOMAIN mask.px = DOMAIN hsv.px
        /\ \A i \in DOMAIN hsv.px :
              mask.px[i] = IF WithinBounds(hsv.px[i]) THEN 255 ELSE 0

\* Hue 35 marked beside hue 34 unmarked.
C5_Witness ==
    /\ pc = "dt_morph"
    /\ \E i, j \in DOMAIN hsv.px :
          /\ hsv.px[i] = <<35, 255, 255>> /\ mask.px[i] = 255
          /\ hsv.px[j] = <<34, 255, 255>> /\ mask.px[j] = 0

\* C6: the returned mask has the frame's width and height, one value per
\* pixel, and every value is 0 or 255.
C6_MaskShape ==
    JustReturned =>
        /\ result.mask.w = frame.w
        /\ result.mask.h = frame.h
        /\ DOMAIN result.mask.px = 0..(frame.w * frame.h - 1)
        /\ \A i \in DOMAIN result.mask.px : result.mask.px[i] \in {0, 255}

\* A large frame answered with a contour and a mask of both values.
C6_Witness ==
    /\ JustReturned
    /\ frame.w = FrameW
    /\ result.contour # <<>>
    /\ \E i, j \in DOMAIN result.mask.px :
          result.mask.px[i] = 0 /\ result.mask.px[j] = 255

\* C7: whatever calls came before, the outcome of a call on a frame is
\* the outcome a newly constructed detector gives on that frame.
C7_HistoryIndependent ==
    (pc \in {"idle", "pf_draw"} /\ result.kind # "none") =>
        result = detect_table(frame, <<35, 50, 50>>, <<85, 255, 255>>)

\* The second frame of a camera run has been answered with a contour.
C7_Witness ==
    /\ pc = "pf_draw"
    /\ Len(calls) = 2
    /\ result.contour # <<>>

\* C8: no step of detect_table changes the frame or the detector's bounds.
C8_NoSideEffects ==
    [][InDetect => /\ frame' = frame
                   /\ lower_green' = lower_green
                   /\ upper_green' = upper_green]_vars

\* A call has returned a contour, frame and bounds as they were.
C8_Witness ==
    /\ JustReturned
    /\ result.contour # <<>>
    /\ frame \in ApiFrames
    /\ lower_green = <<35, 50, 50>>
    /\ upper_green = <<85, 255, 255>>

\* In camera mode the frames handed to detect_table are the frames read,
\* each once and in read order; after a failed read or the quit key no
\* further frame is handled and the capture is released before main ends.
CameraDiscipline ==
    entry # "api" =>
        /\ \A k \in 1..Len(calls) : calls[k] = k
        /\ Len(calls) = IF pc = "dt_threshold" THEN reads - 1 ELSE reads
        /\ stopped => pc \in {"release", "destroy", "exit"}
        /\ (stopped /\ pc \in {"destroy", "exit"}) => cap = "released"

\* C9 as stated: ... and every single-image run calls detect_table once.
C9_OncePerFrame ==
    /\ CameraDiscipline
    /\ (entry = "image" /\ pc = "exit") => Len(calls) = 1

\* C9: ... and a single-image run calls detect_table once when the image
\* could be read and not at all when it could not.
C9_OncePerFrameRead ==
    /\ CameraDiscipline
    /\ (entry = "image" /\ pc = "exit") => (Len(calls) = reads /\ reads <= 1)
    /\ (entry = "image" /\ pc \in {"pf_draw", "pf_show", "destroy"}) => Len(calls) = 1

\* A camera run that handled two frames, saw the quit key and has ended.
C9_Witness ==
    /\ entry = "camera"
    /\ pc = "exit"
    /\ stopped
    /\ cap = "released"
    /\ Len(calls) = 2

\* C10: the mask contours are taken from, and the mask returned, is the
\* raw threshold mask dilated, eroded, eroded and dilated, in that order.
CloseThenOpen(raw) == Dilate(Erode(Erode(Dilate(raw))))

OpenThenClose(raw) == Erode(Dilate(Dilate(Erode(raw))))

RawMaskOf(f) == InRange(CvtColor(f), <<35, 50, 50>>, <<85, 255, 255>>)

C10_CloseThenOpen ==
    /\ pc = "dt_contours" => mask = CloseThenOpen(InRange(hsv, <<35, 50, 50>>, <<85, 255, 255>>))
    /\ JustReturned => result.mask = CloseThenOpen(RawMaskOf(frame))

\* A returned mask that is neither the raw mask nor what the reverse
\* order gives.
C10_Witness ==
    /\ JustReturned
    /\ result.mask # RawMaskOf(frame)
    /\ result.mask # OpenThenClose(RawMaskOf(frame))

====
